---- MODULE Spec2Model ----
(***************************************************************************)
(* Model of eggy.py: the quote store (Quotes), the message handlers        *)
(* (AddQuote, GetQuote, Rebirth, QuoteTrigger), the dispatcher             *)
(* (Eggy.on_message) and the topic cache (Eggy.topics).                    *)
(*                                                                         *)
(* Python strings are sequences of one-character strings, so that          *)
(* startswith, `in`, the regular expressions, str(int) and int(str) are    *)
(* computed and not assumed.                                               *)
(***************************************************************************)
EXTENDS Integers, Sequences, FiniteSets, TLC

VARIABLES
    quotes,     \* Quotes.quotes: the in-memory list of quotes
    quotesfd,   \* the contents of quotes.txt, a sequence of characters
    topics,     \* Eggy.topics: a dict target -> topic (DOMAIN = the keys)
    pc,         \* "idle" (in asyncore.loop), "on_message" (in the loop of
                \* Eggy.on_message), "done" (Eggy.on_message has returned)
                \* or "crashed" (an exception left Eggy.on_message)
    idx,        \* position of Eggy.on_message's loop in message_handlers
    event,      \* the message event being processed
    calls,      \* handlers invoked for `event`, in order, with their outcome
    out,        \* outbound effects issued while processing `event`
    log,        \* Logger.error lines written while processing `event`
    acted,      \* the handlers that, while processing `event`, changed the
                \* quote store or issued an outbound effect
    pending,    \* topic changes handed to the transport and not yet echoed
                \* back as TOPIC events (tracked by SpecEcho only)
    raced       \* an add was processed while a topic change was pending

vars == <<quotes, quotesfd, topics, pc, idx, event, calls, out, log,
          acted, pending, raced>>

----------------------------------------------------------------------------
(* Bounds of the model *)

\* initial quote files hold 0..MaxSmallInit lines, or BigInit lines
MaxSmallInit == 1
\* the size of the large initial quote file (counts cross 9 -> 10 -> 11)
BigInit == 9

----------------------------------------------------------------------------
(* Python string operations *)

NL == "\n"
CR == "\r"

Digits == <<"0", "1", "2", "3", "4", "5", "6", "7", "8", "9">>

IsDigit(ch) == \E d \in 1..10 : Digits[d] = ch

DigitVal(ch) == (CHOOSE d \in 1..10 : Digits[d] = ch) - 1

\* the characters of the class [0-9a-zA-Z]
AlnumChars ==
    {"0", "1", "2", "3", "4", "5", "6", "7", "8", "9",
     "a", "b", "c", "d", "e", "f", "g", "h", "i", "j", "k", "l", "m",
     "n", "o", "p", "q", "r", "s", "t", "u", "v", "w", "x", "y", "z",
     "A", "B", "C", "D", "E", "F", "G", "H", "I", "J", "K", "L", "M",
     "N", "O", "P", "Q", "R", "S", "T", "U", "V", "W", "X", "Y", "Z"}

\* s.startswith(p)
startswith(s, p) == Len(p) <= Len(s) /\ SubSeq(s, 1, Len(p)) = p

\* s[n:]
slice_from(s, n) == SubSeq(s, n + 1, Len(s))

\* sub in s, for strings
str_contains(s, sub) ==
    \E i \in 1..(Len(s) - Len(sub) + 1) : SubSeq(s, i, i + Len(sub) - 1) = sub

\* str(n) for n >= 0
RECURSIVE str(_)
str(n) == IF n < 10 THEN <<Digits[n + 1]>>
          ELSE str(n \div 10) \o <<Digits[(n % 10) + 1]>>

\* int(s) for a string of digits with an optional leading minus sign
RECURSIVE int_digits(_)
int_digits(s) == IF s = <<>> THEN 0
                 ELSE 10 * int_digits(SubSeq(s, 1, Len(s) - 1)) + DigitVal(s[Len(s)])

int(s) == IF s # <<>> /\ s[1] = "-" THEN 0 - int_digits(Tail(s)) ELSE int_digits(s)

\* s.rstrip('\n\r')
RECURSIVE rstrip(_)
rstrip(s) == IF s # <<>> /\ s[Len(s)] \in {NL, CR}
             THEN rstrip(SubSeq(s, 1, Len(s) - 1)) ELSE s

\* a substitution that stops after the first occurrence (count=1)
RECURSIVE re_sub_first(_, _, _)
re_sub_first(pat, repl, s) ==
    IF s = <<>> THEN <<>>
    ELSE IF startswith(s, pat) THEN repl \o slice_from(s, Len(pat))
    ELSE <<Head(s)>> \o re_sub_first(pat, repl, Tail(s))

\* re.sub(re.compile(pat), repl, s) for a pattern of literal digits:
\* every leftmost non-overlapping occurrence of pat is replaced by repl
RECURSIVE re_sub(_, _, _)
re_sub(pat, repl, s) ==
    IF s = <<>> THEN <<>>
    ELSE IF startswith(s, pat) THEN repl \o re_sub(pat, repl, slice_from(s, Len(pat)))
    ELSE <<Head(s)>> \o re_sub(pat, repl, Tail(s))

\* `$` of a Python regular expression: the end of the string, or the
\* position just before a newline that ends the string
AtDollar(s, n) == n = Len(s) \/ (n = Len(s) - 1 /\ s[Len(s)] = NL)

----------------------------------------------------------------------------
(* Literals of the program *)

trigger == <<"e", "g", "g", "p", "y">>
cmd_add == <<"a", "d", "d">>
cmd_rebirth == <<"r", "e", "b", "i", "r", "t", "h">>

MsgOld == <<"o", "o", "o", "o", "o", "l", "d">>
MsgNoQuotes == <<"N", "o", " ", "q", "u", "o", "t", "e", "s">>
MsgAddedHead == <<"Q", "u", "o", "t", "e", " ", "a", "d", "d", "e", "d", ".", " ">>
MsgAddedTail == <<" ", "q", "u", "o", "t", "e", "s", " ", "i", "n", " ",
                  "d", "a", "t", "a", "b", "a", "s", "e">>

----------------------------------------------------------------------------
(* class Quotes *)

\* iterating the file object: the lines of the file, each with its "\n"
RECURSIVE readlines(_)
readlines(fd) ==
    IF fd = <<>> THEN <<>>
    ELSE IF \E k \in 1..Len(fd) : fd[k] = NL
         THEN LET k == CHOOSE j \in 1..Len(fd) :
                           fd[j] = NL /\ \A i \in 1..(j - 1) : fd[i] # NL
              IN  <<SubSeq(fd, 1, k)>> \o readlines(slice_from(fd, k))
         ELSE <<fd>>

\* Quotes._read_quotes: self.quotes after reading the file
Quotes_read_quotes(fd) ==
    LET lines == readlines(fd)
    IN  [i \in 1..Len(lines) |-> rstrip(lines[i])]

\* an iteration that stops one element short
Quotes_contains_but_last(qs, quote) == \E i \in 1..(Len(qs) - 1) : qs[i] = quote

\* `quote in bot.quotes`: membership by iteration (Quotes.__iter__)
Quotes_contains(qs, quote) == \E i \in 1..Len(qs) : qs[i] = quote

\* self.quotes[key] raises IndexError unless -len <= key < len
Quotes_index_ok(qs, key) == 0 - Len(qs) <= key /\ key < Len(qs)

\* Quotes.__getitem__(key) for a key in range: a list index, 0-based, a
\* negative key counting from the end
Quotes_getitem(qs, key) == IF key < 0 THEN qs[Len(qs) + key + 1] ELSE qs[key + 1]

\* an add that puts the new quote first
Quotes_add_front(qs, fd, quote) ==
    IF quote = <<>> \/ (\E i \in 1..Len(quote) : quote[i] = NL)
    THEN [exc |-> "ValueError", quotes |-> qs, quotesfd |-> fd]
    ELSE [exc |-> "None",
          quotes |-> <<quote>> \o qs,
          quotesfd |-> quote \o <<NL>> \o fd]

\* an add that validates after it has stored the quote
Quotes_add_then_validate(qs, fd, quote) ==
    [exc |-> IF quote = <<>> \/ (\E i \in 1..Len(quote) : quote[i] = NL)
             THEN "ValueError" ELSE "None",
     quotes |-> qs \o <<quote>>,
     quotesfd |-> fd \o quote \o <<NL>>]

\* Quotes.add: the exception raised and the store after the call
Quotes_add(qs, fd, quote) ==
    IF quote = <<>> \/ (\E i \in 1..Len(quote) : quote[i] = NL)
    THEN [exc |-> "ValueError", quotes |-> qs, quotesfd |-> fd]
    ELSE [exc |-> "None",
          quotes |-> qs \o <<quote>>,
          quotesfd |-> fd \o quote \o <<NL>>]

\* Quotes.add when quotesfd.write or quotesfd.flush raises OSError: the
\* quote is already in self.quotes, the file has not received the line
Quotes_add_write_fails(qs, fd, quote) ==
    IF quote = <<>> \/ (\E i \in 1..Len(quote) : quote[i] = NL)
    THEN [exc |-> "ValueError", quotes |-> qs, quotesfd |-> fd]
    ELSE [exc |-> "OSError", quotes |-> qs \o <<quote>>, quotesfd |-> fd]

----------------------------------------------------------------------------
(* Outbound effects: what the bot hands to the transport *)

\* Eggy.say / Eggy.respond: send_message(target, line)
Eggy_say(target, line) == [kind |-> "PRIVMSG", target |-> target, text |-> line]

\* Eggy.change_topic: execute('TOPIC', target, trailing=topic)
Eggy_change_topic(target, topic) == [kind |-> "TOPIC", target |-> target, text |-> topic]

\* bot.set_nickname(args)
Eggy_set_nickname(nick) == [kind |-> "NICK", target |-> "", text |-> nick]

\* the outcome of one handler call: what it returned or raised, the store
\* after the call and the effects it issued
Outcome(ret, exc, qs, fd, effects) ==
    [ret |-> ret, exc |-> exc, quotes |-> qs, quotesfd |-> fd, out |-> effects]

----------------------------------------------------------------------------
(* The message handlers *)

\* Command.on_message: the prefix a command message starts with
Command_prefix(command) == trigger \o <<" ">> \o command \o <<" ">>

\* a comparison that takes every substitution for a change
AddQuote_topic_differs_always(newtopic, topic) == TRUE

\* AddQuote.on_command, `if newtopic != topic`
AddQuote_topic_differs(newtopic, topic) == newtopic # topic

\* AddQuote.on_command from `bot.quotes.add(new_quote)` on, where a is what
\* Quotes.add did
AddQuote_after_add(ev, a, tp) ==
    IF a.exc # "None"
    THEN Outcome("raise", a.exc, a.quotes, a.quotesfd, <<>>)
    ELSE IF ev.target \notin DOMAIN tp
    THEN Outcome("raise", "KeyError", a.quotes, a.quotesfd, <<>>)
    ELSE LET topic == tp[ev.target]
             n == Len(a.quotes)
             newtopic == re_sub(str(n - 1), str(n), topic)
         IN  IF topic # <<>> /\ AddQuote_topic_differs(newtopic, topic)
             THEN Outcome("True", "None", a.quotes, a.quotesfd,
                          <<Eggy_change_topic(ev.target, newtopic)>>)
             ELSE Outcome("True", "None", a.quotes, a.quotesfd,
                          <<Eggy_say(ev.target,
                                     MsgAddedHead \o str(n) \o MsgAddedTail)>>)

\* AddQuote.on_command
AddQuote_on_command(ev, new_quote, qs, fd, tp) ==
    IF Quotes_contains(qs, new_quote)
    THEN Outcome("True", "None", qs, fd, <<Eggy_say(ev.target, MsgOld)>>)
    ELSE AddQuote_after_add(ev, Quotes_add(qs, fd, new_quote), tp)

\* AddQuote.on_command when the write or the flush of Quotes.add fails
AddQuote_on_command_write_fails(ev, new_quote, qs, fd, tp) ==
    IF Quotes_contains(qs, new_quote)
    THEN Outcome("True", "None", qs, fd, <<Eggy_say(ev.target, MsgOld)>>)
    ELSE AddQuote_after_add(ev, Quotes_add_write_fails(qs, fd, new_quote), tp)

\* AddQuote: Command.on_message with command "add"
AddQuote_on_message(ev, qs, fd, tp) ==
    LET prefix == Command_prefix(cmd_add) IN
    IF ~startswith(ev.message, prefix)
    THEN Outcome("False", "None", qs, fd, <<>>)
    ELSE AddQuote_on_command(ev, slice_from(ev.message, Len(prefix)), qs, fd, tp)

\* AddQuote: Command.on_message with command "add", on a failing disk
AddQuote_on_message_write_fails(ev, qs, fd, tp) ==
    LET prefix == Command_prefix(cmd_add) IN
    IF ~startswith(ev.message, prefix)
    THEN Outcome("False", "None", qs, fd, <<>>)
    ELSE AddQuote_on_command_write_fails(ev, slice_from(ev.message, Len(prefix)),
                                         qs, fd, tp)

\* -?[1-9]\d* matches the whole of g
IsIndexText(g) ==
    LET body == IF g # <<>> /\ g[1] = "-" THEN Tail(g) ELSE g
    IN  /\ body # <<>>
        /\ IsDigit(body[1]) /\ body[1] # "0"
        /\ \A i \in 2..Len(body) : IsDigit(body[i])

\* GetQuote.trigger.match(msg) for '^#(-?[1-9]\d*)?$': whether it matches,
\* and group(1) (has_group is FALSE when group(1) is None)
GetQuote_trigger_match(msg) ==
    LET ends == {n \in {Len(msg) - 1, Len(msg)} :
                    /\ n >= 1
                    /\ AtDollar(msg, n)
                    /\ msg[1] = "#"
                    /\ (n = 1 \/ IsIndexText(SubSeq(msg, 2, n)))}
    IN  IF ends = {}
        THEN [matched |-> FALSE, has_group |-> FALSE, group |-> <<>>]
        ELSE LET n == CHOOSE e \in ends : TRUE
             IN  [matched |-> TRUE, has_group |-> n > 1, group |-> SubSeq(msg, 2, n)]

\* a resolution of negative indices that forgets the + 1
GetQuote_resolve_off_by_one(query, n) == IF query < 0 THEN query + n ELSE query

\* GetQuote.on_message, `if number < 0: number += len(bot.quotes)+1`
GetQuote_resolve(query, n) == IF query < 0 THEN query + n + 1 ELSE query

\* a range check that lets the index 0 through
GetQuote_out_of_range_but_zero(number, n) == number > n \/ number < 0

\* GetQuote.on_message, `if number > len(bot.quotes) or number <= 0`
GetQuote_out_of_range(number, n) == number > n \/ number <= 0

\* GetQuote.on_message
GetQuote_on_message(ev, qs, fd) ==
    LET result == GetQuote_trigger_match(ev.message) IN
    IF ~result.matched
    THEN Outcome("False", "None", qs, fd, <<>>)
    ELSE IF ~result.has_group
    THEN Outcome("True", "None", qs, fd, <<Eggy_say(ev.target, str(Len(qs)))>>)
    ELSE LET query == int(result.group)
             number == GetQuote_resolve(query, Len(qs))
         IN  IF GetQuote_out_of_range(number, Len(qs))
             THEN Outcome("False", "None", qs, fd, <<>>)
             ELSE IF ~Quotes_index_ok(qs, number - 1)
             THEN Outcome("raise", "IndexError", qs, fd, <<>>)
             ELSE Outcome("True", "None", qs, fd,
                          <<Eggy_say(ev.target, Quotes_getitem(qs, number - 1))>>)

\* Rebirth.allowable.match(args) for '^[0-9a-zA-Z]+$'
Rebirth_allowable_match(args) ==
    \E n \in {Len(args) - 1, Len(args)} :
        /\ n >= 1
        /\ AtDollar(args, n)
        /\ \A i \in 1..n : args[i] \in AlnumChars

\* Rebirth.on_command
Rebirth_on_command(ev, args, qs, fd) ==
    IF ~Rebirth_allowable_match(args)
    THEN Outcome("False", "None", qs, fd, <<>>)
    ELSE Outcome("True", "None", qs, fd, <<Eggy_set_nickname(args)>>)

\* Rebirth: Command.on_message with command "rebirth"
Rebirth_on_message(ev, qs, fd) ==
    LET prefix == Command_prefix(cmd_rebirth) IN
    IF ~startswith(ev.message, prefix)
    THEN Outcome("False", "None", qs, fd, <<>>)
    ELSE Rebirth_on_command(ev, slice_from(ev.message, Len(prefix)), qs, fd)

\* an emptiness test that takes a store of one quote for empty
QuoteTrigger_no_quotes_upto_one(qs) == Len(qs) <= 1

\* QuoteTrigger.on_message, `if len(bot.quotes) == 0`
QuoteTrigger_no_quotes(qs) == Len(qs) = 0

\* QuoteTrigger.on_message; k is the index random.choice picks
QuoteTrigger_on_message(ev, qs, fd, k) ==
    IF ~str_contains(ev.message, trigger)
    THEN Outcome("False", "None", qs, fd, <<>>)
    ELSE IF QuoteTrigger_no_quotes(qs)
    THEN Outcome("True", "None", qs, fd, <<Eggy_say(ev.target, MsgNoQuotes)>>)
    ELSE Outcome("True", "None", qs, fd, <<Eggy_say(ev.target, Quotes_getitem(qs, k))>>)

----------------------------------------------------------------------------
(* class Eggy: the dispatcher and the topic cache *)

\* Eggy.add_message_handler: self.message_handlers += ((handler, fn),)
add_message_handler(handlers, handler) == handlers \o <<handler>>

\* Eggy.__init__: the handlers in the order their modules are loaded
message_handlers ==
    add_message_handler(
        add_message_handler(
            add_message_handler(
                add_message_handler(<<>>, "AddQuote"),
                "GetQuote"),
            "Rebirth"),
        "QuoteTrigger")

\* a dispatcher that ignores what the handler returned
Eggy_on_message_returns_never(r) == FALSE

\* Eggy.on_message, `if fn(bot, event): return`
Eggy_on_message_returns(r) == r.ret = "True"

\* a dispatcher whose except clause names ValueError only
Eggy_on_message_catches_ValueError(exc) == exc = "ValueError"

\* Eggy.on_message, `except Exception as err`: ValueError, KeyError,
\* IndexError and OSError are all subclasses of Exception
Eggy_on_message_catches(exc) ==
    exc \in {"ValueError", "KeyError", "IndexError", "OSError"}

\* Eggy.on_message, the two Logger.error lines of the except clause
Eggy_on_message_errors(handler, exc) ==
    <<[line |-> "threw", handler |-> handler, exc |-> exc],
      [line |-> "str", handler |-> handler, exc |-> exc]>>

\* a cache that stores the topic under every key it holds
Eggy_topic_changed_all(tp, target, topic) ==
    [t \in (DOMAIN tp) \cup {target} |-> topic]

\* Eggy.topic_changed: self.topics[target] = topic
Eggy_topic_changed(tp, target, topic) ==
    [t \in (DOMAIN tp) \cup {target} |-> IF t = target THEN topic ELSE tp[t]]

----------------------------------------------------------------------------
(* Inputs *)

Targets == {"#ravpython", "#other"}

\* the i-th line of an initial quote file
LoadedQuote(i) == <<"q">> \o str(i)

\* a quote file of n lines
RECURSIVE QuoteFile(_)
QuoteFile(n) == IF n = 0 THEN <<>>
                ELSE QuoteFile(n - 1) \o LoadedQuote(n) \o <<NL>>

\* the quote files the bot may start from: well-formed files, a file with a
\* blank line, and a file holding the same line twice
InitFiles ==
    {QuoteFile(n) : n \in (0..MaxSmallInit) \cup {BigInit}}
        \cup {<<NL>>, LoadedQuote(1) \o <<NL>> \o LoadedQuote(1) \o <<NL>>}

\* the texts that follow "eggpy add "
AddTexts == {<<"a">>, <<"h", "i", " ", "u">>, <<>>, <<"a", NL, "b">>, LoadedQuote(1)}

\* the texts that follow "eggpy rebirth "
RebirthTexts == {<<"b", "o", "t", "2">>, <<"b", "o", "t", "2", "!">>, <<>>,
                 <<"Z", "e", "d", NL>>}

\* the indices users ask for when the store holds c quotes
IndexTexts(c) == {str(n) : n \in 0..(c + 1)}

\* the chat messages that may arrive when the store holds c quotes
MessageTexts(c) ==
    {Command_prefix(cmd_add) \o q : q \in AddTexts}
        \cup {Command_prefix(cmd_rebirth) \o a : a \in RebirthTexts}
        \cup {<<"#">> \o t : t \in IndexTexts(c)}
        \cup {<<"#", "-">> \o t : t \in IndexTexts(c)}
        \cup {<<"#">>, <<"#", "0", "1">>, <<"#", "-">>, <<"#", "1", NL>>,
              <<"#", "1", " ">>}
        \cup {trigger, <<"h", "i", " ">> \o trigger \o <<"!">>,
              trigger \o <<" ">> \o cmd_add, <<"h", "i">>}

\* the topics that may be set when the store holds c quotes
TopicTexts(c) ==
    {<<>>, <<"c", "h", "a", "t">>, str(c) \o <<" ", "q">>,
     <<"1", "0", " ", "1", "1">>}

NoEvent == [kind |-> "none", target |-> "", message |-> <<>>]

----------------------------------------------------------------------------
(* The state machine *)

\* Eggy.__init__ and Quotes.__init__, started on one of `files`
InitOn(files) ==
    /\ quotesfd \in files
    /\ quotes = Quotes_read_quotes(quotesfd)
    /\ topics = [t \in {} |-> <<>>]
    /\ pc = "idle"
    /\ idx = 0
    /\ event = NoEvent
    /\ calls = <<>>
    /\ out = <<>>
    /\ log = <<>>
    /\ acted = {}
    /\ pending = <<>>
    /\ raced = FALSE

Init == InitOn(InitFiles)

\* a "message" event arrives: Eggy.on_message starts its loop
Message(target, text) ==
    /\ pc = "idle"
    /\ event' = [kind |-> "message", target |-> target, message |-> text]
    /\ pc' = IF Len(message_handlers) = 0 THEN "done" ELSE "on_message"
    /\ idx' = IF Len(message_handlers) = 0 THEN 0 ELSE 1
    /\ calls' = <<>>
    /\ out' = <<>>
    /\ log' = <<>>
    /\ acted' = {}
    /\ UNCHANGED <<quotes, quotesfd, topics, pending, raced>>

\* one iteration of the loop of Eggy.on_message: handler h was called and
\* its outcome is r
Eggy_on_message_step(h, r) ==
    /\ pc = "on_message"
    /\ message_handlers[idx] = h
    /\ quotes' = r.quotes
    /\ quotesfd' = r.quotesfd
    /\ out' = out \o r.out
    /\ calls' = Append(calls, [handler |-> h, ret |-> r.ret, exc |-> r.exc])
    /\ IF r.ret = "raise" /\ ~Eggy_on_message_catches(r.exc)
       THEN /\ pc' = "crashed"
            /\ idx' = 0
            /\ log' = log
       ELSE /\ log' = IF r.ret = "raise"
                      THEN log \o Eggy_on_message_errors(h, r.exc)
                      ELSE log
            /\ IF Eggy_on_message_returns(r) \/ idx = Len(message_handlers)
               THEN pc' = "done" /\ idx' = 0
               ELSE pc' = "on_message" /\ idx' = idx + 1
    /\ acted' = IF r.quotes # quotes \/ r.quotesfd # quotesfd \/ r.out # <<>>
                THEN acted \cup {h} ELSE acted
    /\ UNCHANGED <<topics, event>>

AddQuoteStep ==
    /\ Eggy_on_message_step("AddQuote",
                            AddQuote_on_message(event, quotes, quotesfd, topics))
    /\ UNCHANGED <<pending, raced>>

GetQuoteStep ==
    /\ Eggy_on_message_step("GetQuote", GetQuote_on_message(event, quotes, quotesfd))
    /\ UNCHANGED <<pending, raced>>

RebirthStep ==
    /\ Eggy_on_message_step("Rebirth", Rebirth_on_message(event, quotes, quotesfd))
    /\ UNCHANGED <<pending, raced>>

QuoteTriggerStep ==
    /\ \E k \in 0..(IF Len(quotes) = 0 THEN 0 ELSE Len(quotes) - 1) :
           Eggy_on_message_step("QuoteTrigger",
                                QuoteTrigger_on_message(event, quotes, quotesfd, k))
    /\ UNCHANGED <<pending, raced>>

\* Eggy.on_message has returned: control is back in asyncore.loop, and the
\* record of the message just processed is dropped
Return ==
    /\ pc = "done"
    /\ pc' = "idle"
    /\ event' = NoEvent
    /\ calls' = <<>>
    /\ out' = <<>>
    /\ log' = <<>>
    /\ acted' = {}
    /\ UNCHANGED <<quotes, quotesfd, topics, idx, pending, raced>>

\* Eggy.on_any for a TOPIC command: what it does to the bot
Eggy_on_any(target, topic) ==
    /\ pc = "idle"
    /\ topics' = Eggy_topic_changed(topics, target, topic)
    /\ UNCHANGED <<quotes, quotesfd, pc, idx, event, calls, out, log, acted>>

\* a TOPIC event arrives (anyone may have changed the topic)
OnAnyTopic(target, topic) ==
    /\ Eggy_on_any(target, topic)
    /\ UNCHANGED <<pending, raced>>

\* Eggy.on_reply for an RPL_TOPIC reply
OnReplyTopic(target, topic) ==
    /\ pc = "idle"
    /\ topics' = Eggy_topic_changed(topics, target, topic)
    /\ UNCHANGED <<quotes, quotesfd, pc, idx, event, calls, out, log,
                   acted, pending, raced>>

Next ==
    \/ \E target \in Targets : \E text \in MessageTexts(Len(quotes)) :
           Message(target, text)
    \/ AddQuoteStep
    \/ GetQuoteStep
    \/ RebirthStep
    \/ QuoteTriggerStep
    \/ Return
    \/ \E target \in Targets : \E topic \in TopicTexts(Len(quotes)) :
           OnAnyTopic(target, topic)
    \/ \E target \in Targets : \E topic \in TopicTexts(Len(quotes)) :
           OnReplyTopic(target, topic)

Spec == Init /\ [][Next]_vars

----------------------------------------------------------------------------
(* The same machine on a disk that may fail *)

\* the AddQuote iteration of Eggy.on_message when the write of Quotes.add
\* fails
AddQuoteStepWriteFails ==
    /\ Eggy_on_message_step("AddQuote",
                            AddQuote_on_message_write_fails(event, quotes, quotesfd,
                                                            topics))
    /\ UNCHANGED <<pending, raced>>

NextDiskFault ==
    \/ Next
    \/ AddQuoteStepWriteFails

\* the short quote files
SmallInitFiles == {QuoteFile(n) : n \in 0..MaxSmallInit}

InitDiskFault == InitOn(SmallInitFiles)

SpecDiskFault == InitDiskFault /\ [][NextDiskFault]_vars

----------------------------------------------------------------------------
(* The bot and a transport that echoes the topic changes the bot issues:   *)
(* the channel's topic holds the quote count, users add new quotes, and    *)
(* every topic change the bot issued comes back, in order, as a TOPIC      *)
(* event.                                                                  *)

\* the channel the bot joins (Eggy.on_welcome)
EchoTarget == "#ravpython"

\* the topic changes among the effects
TopicChanges(effects) == SelectSeq(effects, LAMBDA e : e.kind = "TOPIC")

\* the initial topic of the channel arrives (RPL_TOPIC) and holds the count
InitialTopic ==
    /\ EchoTarget \notin DOMAIN topics
    /\ \E topic \in TopicTexts(Len(quotes)) :
           /\ str_contains(topic, str(Len(quotes)))
           /\ OnReplyTopic(EchoTarget, topic)

\* a user of the channel adds a quote that is valid and new
AddMessageEcho ==
    /\ EchoTarget \in DOMAIN topics
    /\ \E q \in AddTexts :
           /\ q # <<>> /\ (\A i \in 1..Len(q) : q[i] # NL)
           /\ ~Quotes_contains(quotes, q)
           /\ Message(EchoTarget, Command_prefix(cmd_add) \o q)

\* the AddQuote iteration of Eggy.on_message; the transport queues the topic
\* change it issued
AddQuoteStepEcho ==
    /\ Eggy_on_message_step("AddQuote",
                            AddQuote_on_message(event, quotes, quotesfd, topics))
    /\ pending' = pending \o TopicChanges(SubSeq(out', Len(out) + 1, Len(out')))
    /\ raced' = (raced \/ (quotes' # quotes /\ pending # <<>>))

\* the oldest pending topic change comes back as a TOPIC event
EchoTopic ==
    /\ pending # <<>>
    /\ Eggy_on_any(Head(pending).target, Head(pending).text)
    /\ pending' = Tail(pending)
    /\ UNCHANGED raced

NextEcho ==
    \/ InitialTopic
    \/ AddMessageEcho
    \/ AddQuoteStepEcho
    \/ Return
    \/ EchoTopic

SpecEcho == Init /\ [][NextEcho]_vars

----------------------------------------------------------------------------
(* Vocabulary of the properties *)

\* the loop of Eggy.on_message is about to call handler h
AtHandler(h) == pc = "on_message" /\ message_handlers[idx] = h

\* the message is '<trigger> add <q>', and q
IsAddMessage(m) == startswith(m, Command_prefix(cmd_add))
AddArg(m) == slice_from(m, Len(Command_prefix(cmd_add)))

\* a quote Quotes.add accepts: not empty, no line break
ValidQuote(q) == q # <<>> /\ \A i \in 1..Len(q) : q[i] # NL

\* the confirmation reply for a store of n quotes
Confirmation(target, n) == Eggy_say(target, MsgAddedHead \o str(n) \o MsgAddedTail)

\* s with the leftmost non-overlapping occurrences of old replaced by new,
\* computed position by position
Substituted(s, old, new) ==
    LET Occurs(p) == p + Len(old) - 1 <= Len(s) /\ SubSeq(s, p, p + Len(old) - 1) = old
        Sel[p \in 1..Len(s)] ==
            Occurs(p) /\ \A q \in 1..(p - 1) : (q + Len(old) > p) => ~Sel[q]
        Piece(p) == IF Sel[p] THEN new
                    ELSE IF \E q \in 1..(p - 1) : Sel[q] /\ p < q + Len(old) THEN <<>>
                    ELSE <<s[p]>>
        Cat[p \in 0..Len(s)] == IF p = 0 THEN <<>> ELSE Cat[p - 1] \o Piece(p)
    IN  Cat[Len(s)]

----------------------------------------------------------------------------
(* Properties *)

\* C1: for every message, Eggy.on_message calls the registered handlers in
\* registration order, each at most once, calls no handler after the first
\* one that returned True, and is not stopped by a handler that returned
\* False: it ends only after a True or after the last handler.
C1_DispatchOrder ==
    /\ Len(calls) <= Len(message_handlers)
    /\ \A i \in 1..Len(calls) : calls[i].handler = message_handlers[i]
    /\ \A i, j \in 1..Len(calls) : i # j => calls[i].handler # calls[j].handler
    /\ \A i \in 1..(Len(calls) - 1) : calls[i].ret # "True"
    /\ pc = "on_message" =>
           /\ idx = Len(calls) + 1
           /\ \A i \in 1..Len(calls) : calls[i].ret # "True"
    /\ pc = "done" =>
           \/ Len(calls) = Len(message_handlers)
           \/ calls # <<>> /\ calls[Len(calls)].ret = "True"

\* C1 witness: a handler returned False, the next one returned True and the
\* dispatch ended there
C1_Witness ==
    /\ pc = "done"
    /\ Len(calls) = 2
    /\ calls[1].ret = "False"
    /\ calls[2].ret = "True"

\* C2: a handler that raises is caught and logged, does not count as having
\* handled the message, the handlers after it are still tried until one
\* returns True, and no exception leaves Eggy.on_message.
C2_FaultIsolation ==
    /\ pc # "crashed"
    /\ Len(log) = 2 * Cardinality({i \in 1..Len(calls) : calls[i].ret = "raise"})
    /\ \A i \in 1..Len(calls) :
           calls[i].ret = "raise" =>
               /\ \E j \in 1..Len(log) :
                      /\ log[j].handler = calls[i].handler
                      /\ log[j].exc = calls[i].exc
               /\ pc = "on_message" => idx > i
               /\ pc = "done" =>
                      /\ i < Len(message_handlers) => Len(calls) > i
                      /\ \/ Len(calls) = Len(message_handlers)
                         \/ calls[Len(calls)].ret = "True"

\* C2 witness: the first handler raised, the others were tried and the last
\* one handled the message
C2_Witness ==
    /\ pc = "done"
    /\ Len(calls) = Len(message_handlers)
    /\ calls[1].ret = "raise"
    /\ calls[2].ret = "False"
    /\ calls[Len(calls)].ret = "True"
    /\ log # <<>>

\* C3 as stated: when AddQuote gets '<trigger> add <q>' with q not in the
\* store, for a target whose cached topic contains the decimal form of the
\* count, it inserts q, issues exactly one topic change (the cached topic
\* with the old count replaced by the new one), sends no reply and reports
\* handled.
C3_AsStated ==
    [][(/\ AtHandler("AddQuote")
        /\ IsAddMessage(event.message)
        /\ ~Quotes_contains(quotes, AddArg(event.message))
        /\ event.target \in DOMAIN topics
        /\ str_contains(topics[event.target], str(Len(quotes))))
       => (/\ quotes' = Append(quotes, AddArg(event.message))
           /\ out' = <<Eggy_change_topic(
                          event.target,
                          Substituted(topics[event.target],
                                      str(Len(quotes)), str(Len(quotes) + 1)))>>
           /\ calls' = <<[handler |-> "AddQuote", ret |-> "True", exc |-> "None"]>>
           /\ pc' = "done")]_vars

\* C3 amended: the same, for q not empty and without a line break.
C3_TopicRenumbered ==
    [][(/\ AtHandler("AddQuote")
        /\ IsAddMessage(event.message)
        /\ ValidQuote(AddArg(event.message))
        /\ ~Quotes_contains(quotes, AddArg(event.message))
        /\ event.target \in DOMAIN topics
        /\ str_contains(topics[event.target], str(Len(quotes))))
       => (/\ quotes' = Append(quotes, AddArg(event.message))
           /\ out' = <<Eggy_change_topic(
                          event.target,
                          Substituted(topics[event.target],
                                      str(Len(quotes)), str(Len(quotes) + 1)))>>
           /\ calls' = <<[handler |-> "AddQuote", ret |-> "True", exc |-> "None"]>>
           /\ pc' = "done")]_vars

\* C3 witness: the tenth quote was added while the topic was "9 q", and the
\* only effect is the topic change to "10 q"
C3_Witness ==
    /\ pc = "done"
    /\ IsAddMessage(event.message)
    /\ Len(quotes) = 10
    /\ quotes[10] = AddArg(event.message)
    /\ out = <<Eggy_change_topic(event.target, <<"1", "0", " ", "q">>)>>
    /\ calls[1].ret = "True"

\* C4: when AddQuote gets '<trigger> add <q>' with q non-empty and not in the
\* store, for a target that has no cached topic, it inserts q, replies with
\* the confirmation carrying the new count, reports handled, and no other
\* handler replies. (Stated for q without a line break, so that the only
\* thing in the way is the missing topic.)
C4_NoTopicConfirmation ==
    [][(/\ AtHandler("AddQuote")
        /\ IsAddMessage(event.message)
        /\ ValidQuote(AddArg(event.message))
        /\ ~Quotes_contains(quotes, AddArg(event.message))
        /\ event.target \notin DOMAIN topics)
       => (/\ quotes' = Append(quotes, AddArg(event.message))
           /\ out' = <<Confirmation(event.target, Len(quotes) + 1)>>
           /\ calls' = <<[handler |-> "AddQuote", ret |-> "True", exc |-> "None"]>>
           /\ pc' = "done")]_vars

\* C5 as stated: when AddQuote gets '<trigger> add <q>' with q not in the
\* store, for a target whose cached topic (possibly empty) does not contain
\* the decimal form of the count, it issues no topic change and sends exactly
\* one confirmation carrying the new count; and a topic change is only ever
\* issued when the old count occurs in the cached topic.
C5_AsStated ==
    [][/\ (/\ AtHandler("AddQuote")
           /\ IsAddMessage(event.message)
           /\ ~Quotes_contains(quotes, AddArg(event.message))
           /\ event.target \in DOMAIN topics
           /\ ~str_contains(topics[event.target], str(Len(quotes))))
          => (/\ out' = <<Confirmation(event.target, Len(quotes) + 1)>>
              /\ pc' = "done")
       /\ (\E i \in 1..Len(out') : i > Len(out) /\ out'[i].kind = "TOPIC")
          => (/\ event.target \in DOMAIN topics
              /\ str_contains(topics[event.target], str(Len(quotes))))]_vars

\* C5 amended: the same, for q not empty and without a line break.
C5_NoCountNoTopicChange ==
    [][/\ (/\ AtHandler("AddQuote")
           /\ IsAddMessage(event.message)
           /\ ValidQuote(AddArg(event.message))
           /\ ~Quotes_contains(quotes, AddArg(event.message))
           /\ event.target \in DOMAIN topics
           /\ ~str_contains(topics[event.target], str(Len(quotes))))
          => (/\ out' = <<Confirmation(event.target, Len(quotes) + 1)>>
              /\ pc' = "done")
       /\ (\E i \in 1..Len(out') : i > Len(out) /\ out'[i].kind = "TOPIC")
          => (/\ event.target \in DOMAIN topics
              /\ str_contains(topics[event.target], str(Len(quotes))))]_vars

\* C5 witness: a quote was added for a target whose cached topic is a text
\* without the old count, and the only effect is the confirmation
C5_Witness ==
    /\ pc = "done"
    /\ IsAddMessage(event.message)
    /\ event.target \in DOMAIN topics
    /\ topics[event.target] = <<"c", "h", "a", "t">>
    /\ quotes # <<>>
    /\ quotes[Len(quotes)] = AddArg(event.message)
    /\ out = <<Confirmation(event.target, Len(quotes))>>
    /\ calls[1].ret = "True"

\* C6: when AddQuote gets '<trigger> add <q>' with q already in the store,
\* the store and its file stay as they are, no topic change is issued,
\* exactly one duplicate notice is sent and the message is reported handled.
C6_DuplicateAdd ==
    [][(/\ AtHandler("AddQuote")
        /\ IsAddMessage(event.message)
        /\ \E i \in 1..Len(quotes) : quotes[i] = AddArg(event.message))
       => (/\ quotes' = quotes
           /\ quotesfd' = quotesfd
           /\ out' = <<Eggy_say(event.target, MsgOld)>>
           /\ calls' = <<[handler |-> "AddQuote", ret |-> "True", exc |-> "None"]>>
           /\ pc' = "done")]_vars

\* C6 witness: a quote added earlier in the run was offered again and the
\* only effect is the duplicate notice
C6_Witness ==
    /\ pc = "done"
    /\ IsAddMessage(event.message)
    /\ out = <<Eggy_say(event.target, MsgOld)>>
    /\ quotes # <<>>
    /\ quotes[Len(quotes)] = AddArg(event.message)
    /\ AddArg(event.message) = <<"a">>

\* C7: Quotes.add(s), for s non-empty, without a line break and not in the
\* store, makes the count one larger, puts s at the new last position and
\* leaves every quote stored before at its position.
C7_AddAppends ==
    [][(/\ AtHandler("AddQuote")
        /\ IsAddMessage(event.message)
        /\ ValidQuote(AddArg(event.message))
        /\ \A i \in 1..Len(quotes) : quotes[i] # AddArg(event.message))
       => (/\ Len(quotes') = Len(quotes) + 1
           /\ quotes'[Len(quotes')] = AddArg(event.message)
           /\ \A i \in 1..Len(quotes) : quotes'[i] = quotes[i])]_vars

\* C7 witness: a quote was added to a store that held nine others
C7_Witness ==
    /\ pc = "done"
    /\ IsAddMessage(event.message)
    /\ Len(quotes) = 10
    /\ quotes[10] = AddArg(event.message)
    /\ quotes[9] = LoadedQuote(9)
    /\ calls[1].handler = "AddQuote"

\* C8: Quotes.add with an empty string or with a string that has a line
\* break fails with an error and leaves the list, the count and the file
\* unchanged.
C8_InvalidAddRejected ==
    [][(/\ AtHandler("AddQuote")
        /\ IsAddMessage(event.message)
        /\ ~ValidQuote(AddArg(event.message))
        /\ \A i \in 1..Len(quotes) : quotes[i] # AddArg(event.message))
       => (/\ calls'[Len(calls')] =
                  [handler |-> "AddQuote", ret |-> "raise", exc |-> "ValueError"]
           /\ quotes' = quotes
           /\ Len(quotes') = Len(quotes)
           /\ quotesfd' = quotesfd)]_vars

\* C8 witness: add was called with a string that has a line break, and raised
C8_Witness ==
    /\ pc = "done"
    /\ AddArg(event.message) = <<"a", NL, "b">>
    /\ calls[1] = [handler |-> "AddQuote", ret |-> "raise", exc |-> "ValueError"]
    /\ quotes # <<>>

\* the foreseeable bad inputs of C9: the trigger on an empty store, '#n'
\* with an index out of range, and an add with nothing after the prefix
ForeseeableBadInput ==
    /\ event.kind = "message"
    /\ \/ str_contains(event.message, trigger) /\ Len(quotes) = 0
       \/ \E n \in 0..(Len(quotes) + 1) :
              /\ n = 0 \/ n > Len(quotes)
              /\ event.message \in {<<"#">> \o str(n), <<"#", "-">> \o str(n)}
       \/ event.message = Command_prefix(cmd_add)

\* C9: for the foreseeable bad inputs no handler raises: the dispatcher's
\* except clause is not entered and no error is logged.
C9_NoRaiseOnBadInput ==
    ForeseeableBadInput =>
        /\ log = <<>>
        /\ \A i \in 1..Len(calls) : calls[i].ret # "raise"

\* C10: with c >= 1 quotes and 1 <= n <= c, the messages '#n' and
\* '#(n - c - 1)' are both handled by GetQuote, with exactly one reply, the
\* n-th quote.
C10_NegativeIndex ==
    \A n \in 1..Len(quotes) :
        (/\ pc = "done"
         /\ event.message \in {<<"#">> \o str(n),
                               <<"#", "-">> \o str(Len(quotes) + 1 - n)})
        => (/\ calls = <<[handler |-> "AddQuote", ret |-> "False", exc |-> "None"],
                         [handler |-> "GetQuote", ret |-> "True", exc |-> "None"]>>
            /\ out = <<Eggy_say(event.target, quotes[n])>>)

\* C10 witness: '#-2' was answered with the tenth of eleven quotes
C10_Witness ==
    /\ pc = "done"
    /\ event.message = <<"#", "-", "2">>
    /\ Len(quotes) = 11
    /\ out = <<Eggy_say(event.target, quotes[10])>>
    /\ calls[2].handler = "GetQuote"

\* '#0', or '#n' / '#-n' whose resolved index is outside 1..count
IsBadIndexMessage(m, c) ==
    \/ m = <<"#", "0">>
    \/ \E n \in 1..(c + 1) :
           \/ m = <<"#">> \o str(n) /\ n > c
           \/ m = <<"#", "-">> \o str(n) /\ (c + 1 - n < 1 \/ c + 1 - n > c)

\* C11: '#0' and '#n' with a resolved index outside [1, count] are reported
\* unhandled by GetQuote without raising, and the whole dispatch of such a
\* message emits nothing (no reply, no topic change, no display-name change)
\* and leaves the store and the topic cache unchanged.
C11_BadIndexIgnored ==
    [][(pc = "on_message" /\ IsBadIndexMessage(event.message, Len(quotes)))
       => (/\ calls'[Len(calls')].ret = "False"
           /\ out' = <<>>
           /\ log' = <<>>
           /\ quotes' = quotes
           /\ quotesfd' = quotesfd
           /\ topics' = topics
           /\ pc' = "done" => Len(calls') = Len(message_handlers))]_vars

\* C11 witness: '#-3' on a store of two quotes went through all handlers and
\* none acted
C11_Witness ==
    /\ pc = "done"
    /\ event.message = <<"#", "-", "3">>
    /\ Len(quotes) = 2
    /\ Len(calls) = Len(message_handlers)
    /\ calls[2] = [handler |-> "GetQuote", ret |-> "False", exc |-> "None"]
    /\ out = <<>>

\* the text after '<trigger> rebirth ' is a non-empty string of ASCII
\* letters and digits
IsRebirthMessage(m) == startswith(m, Command_prefix(cmd_rebirth))
RebirthArg(m) == slice_from(m, Len(Command_prefix(cmd_rebirth)))
IsAlnumText(a) == a # <<>> /\ \A i \in 1..Len(a) : a[i] \in AlnumChars

\* C12: a display-name change is requested for a message if and only if the
\* message starts with '<trigger> rebirth ' and the rest is a non-empty
\* string of ASCII letters and digits; then the name requested is that rest,
\* the message is handled by Rebirth and there is no chat reply. For any other
\* rest Rebirth reports unhandled and no display-name change is requested.
C12_RebirthIffAlnum ==
    pc = "done" =>
        /\ (\E i \in 1..Len(out) : out[i].kind = "NICK")
               <=> (IsRebirthMessage(event.message)
                    /\ IsAlnumText(RebirthArg(event.message)))
        /\ (IsRebirthMessage(event.message) /\ IsAlnumText(RebirthArg(event.message)))
               => (/\ out = <<Eggy_set_nickname(RebirthArg(event.message))>>
                   /\ Len(calls) = 3
                   /\ calls[3] = [handler |-> "Rebirth", ret |-> "True", exc |-> "None"])
        /\ (IsRebirthMessage(event.message) /\ ~IsAlnumText(RebirthArg(event.message)))
               => (/\ Len(calls) >= 3
                   /\ calls[3] = [handler |-> "Rebirth", ret |-> "False", exc |-> "None"])

\* C13: when a message with the trigger word reaches QuoteTrigger, it reports
\* handled and sends exactly one reply: the no-quotes text when the store is
\* empty, otherwise a quote that is in the store at that moment.
C13_TriggerReply ==
    [][(AtHandler("QuoteTrigger") /\ str_contains(event.message, trigger))
       => (/\ calls'[Len(calls')] =
                  [handler |-> "QuoteTrigger", ret |-> "True", exc |-> "None"]
           /\ pc' = "done"
           /\ Len(out') = 1
           /\ out'[1].kind = "PRIVMSG"
           /\ out'[1].target = event.target
           /\ IF Len(quotes) = 0
              THEN out'[1].text = MsgNoQuotes
              ELSE \E i \in 1..Len(quotes) : quotes[i] = out'[1].text)]_vars

\* C13 witness: the trigger word inside a longer message was answered with
\* the second of two quotes
C13_Witness ==
    /\ pc = "done"
    /\ event.message = <<"h", "i", " ">> \o trigger \o <<"!">>
    /\ Len(quotes) = 2
    /\ out = <<Eggy_say(event.target, quotes[2])>>
    /\ calls[Len(calls)].handler = "QuoteTrigger"

\* C14: at most one matcher acts per message: the handlers that change the
\* quote store or issue an outbound effect while one message is dispatched
\* are at most one, and at most one outbound effect is issued in total.
C14_OneMatcherActs ==
    /\ Cardinality(acted) <= 1
    /\ Len(out) <= 1

\* the quote file read back, as Quotes._read_quotes would read it
PersistedQuotes == Quotes_read_quotes(quotesfd)

\* C15: in every reachable state, also after an add whose write or flush
\* failed, every quote visible in memory is present in the quote file at the
\* same position.
C15_MemoryMirrorsFile ==
    /\ Len(quotes) <= Len(PersistedQuotes)
    /\ \A i \in 1..Len(quotes) : PersistedQuotes[i] = quotes[i]

\* C16 as stated: starting with a cached topic that holds the count, after
\* any interleaving of successful adds for the channel and of the echoes of
\* the topic changes the bot issued, once every issued change has been
\* echoed the cached topic holds the current count, also when two adds are
\* processed before the first echo arrives.
C16_AsStated ==
    (EchoTarget \in DOMAIN topics /\ pending = <<>>)
        => str_contains(topics[EchoTarget], str(Len(quotes)))

\* The extent of the failure of C16: as long as no add is processed while a
\* topic change is still waiting for its echo, the cached topic holds the
\* count once every issued change has been echoed.
C16_TopicSynchronized ==
    (EchoTarget \in DOMAIN topics /\ pending = <<>> /\ ~raced)
        => str_contains(topics[EchoTarget], str(Len(quotes)))

\* Such a sequence: two quotes were added to a store of nine, each after the echo
\* of the previous topic change, and the cached topic went from "9 q" to
\* "11 q"
C16_EchoedInTurn ==
    /\ pc = "idle"
    /\ ~raced
    /\ pending = <<>>
    /\ Len(quotes) = 11
    /\ quotes[9] = LoadedQuote(9)
    /\ EchoTarget \in DOMAIN topics
    /\ topics[EchoTarget] = <<"1", "1", " ", "q">>

\* C17: the topic cache changes only in a TOPIC or RPL_TOPIC event; the event
\* sets the entry of its own target and leaves the entries of the other
\* targets and the quote store as they are; the dispatch of a message (an add
\* that issues a topic change included) leaves the cache unchanged.
C17_TopicCacheFrame ==
    [][/\ (pc # "idle" \/ pc' # "idle") => topics' = topics
       /\ (\E i \in 1..Len(out') : out'[i].kind = "TOPIC") => topics' = topics
       /\ topics' # topics =>
              /\ quotes' = quotes
              /\ quotesfd' = quotesfd
              /\ \E t \in Targets :
                     /\ DOMAIN topics' = (DOMAIN topics) \cup {t}
                     /\ \A u \in (DOMAIN topics) \ {t} : topics'[u] = topics[u]]_vars

\* C17 witness: both targets have a cached topic, an add for one of them has
\* issued a topic change, and the cache still holds the old topic
C17_Witness ==
    /\ pc = "done"
    /\ DOMAIN topics = Targets
    /\ topics["#other"] = <<"c", "h", "a", "t">>
    /\ event.target = "#ravpython"
    /\ topics["#ravpython"] = <<"9", " ", "q">>
    /\ out = <<Eggy_change_topic("#ravpython", <<"1", "0", " ", "q">>)>>

\* C18: the quote store is append-only: in every step the count does not
\* decrease and grows by at most one, every stored quote keeps its position
\* and value, and the store changes only in AddQuote's insertion of a new
\* quote.
C18_AppendOnly ==
    [][/\ Len(quotes') \in {Len(quotes), Len(quotes) + 1}
       /\ \A i \in 1..Len(quotes) : quotes'[i] = quotes[i]
       /\ quotes' # quotes =>
              /\ AtHandler("AddQuote")
              /\ IsAddMessage(event.message)
              /\ \A i \in 1..Len(quotes) : quotes[i] # AddArg(event.message)
              /\ quotes'[Len(quotes')] = AddArg(event.message)]_vars

\* C18 witness: a store loaded with nine quotes has grown to eleven and the
\* loaded quotes are where they were
C18_Witness ==
    /\ Len(quotes) = 11
    /\ \A i \in 1..9 : quotes[i] = LoadedQuote(i)
    /\ quotes[10] # quotes[11]
    /\ pc = "done"
    /\ calls[Len(calls)].handler = "GetQuote"

\* no quote is stored twice
NoTwoEqual(qs) == \A i, j \in 1..Len(qs) : i # j => qs[i] # qs[j]

\* C19: a store without two equal quotes stays without two equal quotes in
\* every step, also when the insertion of an add is followed by a fault of
\* the handler.
C19_NoDuplicates ==
    [][NoTwoEqual(quotes) => NoTwoEqual(quotes')]_vars

\* C19 witness: no topic was ever cached, so the add of "a" faulted after its
\* insertion; "a" was then offered again and was refused as a duplicate
C19_Witness ==
    /\ pc = "done"
    /\ DOMAIN topics = {}
    /\ event.message = Command_prefix(cmd_add) \o <<"a">>
    /\ out = <<Eggy_say(event.target, MsgOld)>>
    /\ quotes = <<LoadedQuote(1), <<"a">>>>
    /\ NoTwoEqual(quotes)

====
